---- MODULE Spec2Model ----
(***************************************************************************)
(* Model of endgame-benchmarks/tbgen.py: the Generator that draws random   *)
(* placements for a material signature, keeps the ones that are a win      *)
(* within the 50-move rule, deduplicates them and annotates each with its  *)
(* optimal (bm) and forfeiting (am) moves, its mate distance (dm) and the  *)
(* R50 flag.                                                               *)
(*                                                                         *)
(* A placement is a record of what the rules engine and the two tablebase  *)
(* oracles answer for it: valid (board.is_valid()), dtz (probe_dtz), pdtm  *)
(* (probe_dtm) and moves, the list of legal moves.  A move is the record   *)
(* of what they answer for the position after it: zeroing (the move        *)
(* resets the half-move clock), over (is_game_over(claim_draw=True)),      *)
(* mate (is_checkmate()), dtz and dtm.  The oracles are functions of the   *)
(* placement, so two draws of one placement get the same answers.          *)
(***************************************************************************)
EXTENDS Integers, Sequences, FiniteSets, TLC

VARIABLES
    pc,             \* position of the program
    code,           \* Generator._code: the material signature, a string
    pieces,         \* Generator._pieces
    unique_boards,  \* Generator._unique_boards
    stats,          \* Generator.stats
    board,          \* the board yielded by _generate_boards, being annotated
    out,            \* the EPD records written so far
    draws,          \* number of iterations of the sampling loop so far
    last,           \* the latest iteration: placement, clock, outcome
    call,           \* argument of the function applied on its own
    ret             \* its result

vars == <<pc, code, pieces, unique_boards, stats, board, out, draws, last, call, ret>>

----------------------------------------------------------------------------
(* Bounds of the model *)

MaxCodeLen == 4     \* longest signature string tried
MaxClock == 1       \* sampled positions have dtz in 100 - MaxClock .. 100
MaxMoves == 2       \* most legal moves of an annotated position
MaxDtm == 2         \* mate distances of replies range over -MaxDtm .. 0
MaxDraws == 3       \* iterations of the sampling loop in one run
N == 2              \* args.n: the number of records asked for

(* The 50-move rule in plies: the literal 100 of the source *)
FiftyMoves == 100

----------------------------------------------------------------------------
(* Python values *)

None == [tag |-> "None"]
PyInt(v) == [tag |-> "int", val |-> v]
Raise(e) == [tag |-> "raise", exc |-> e]

Range(s) == {s[i] : i \in DOMAIN s}

Max(S) == CHOOSE x \in S : \A y \in S : y <= x

Min(S) == CHOOSE x \in S : \A y \in S : x <= y

Indices(s) == [i \in 1..Len(s) |-> i]

----------------------------------------------------------------------------
(* Generator.__init__ *)

WhiteNonKing == {"Q", "R", "B", "N", "P"}
BlackNonKing == {"q", "r", "b", "n", "p"}
PieceSymbols == WhiteNonKing \cup BlackNonKing \cup {"K", "k"}

(* Index after the longest run of characters of class cls that starts at i *)
RECURSIVE RunEnd(_, _, _)
RunEnd(s, i, cls) ==
    IF i <= Len(s) /\ s[i] \in cls THEN RunEnd(s, i + 1, cls) ELSE i

(* re.match(r'K[QRBNP]+k[qrbnp]*', s): the length of the match, which is   *)
(* anchored at the start of s only, or 0 when there is none (None).  The   *)
(* classes and the letters K and k are disjoint, so the greedy runs are    *)
(* the only way to match.                                                  *)
ReMatch(s) ==
    IF Len(s) >= 1 /\ s[1] = "K"
    THEN LET j == RunEnd(s, 2, WhiteNonKing)
         IN  IF j > 2 /\ j <= Len(s) /\ s[j] = "k"
             THEN RunEnd(s, j + 1, BlackNonKing) - 1
             ELSE 0
    ELSE 0

(* chess.Piece.from_symbol raises ValueError for a character that is no    *)
(* piece symbol                                                            *)
FromSymbolRaises(s) == \E i \in 1..Len(s) : s[i] \notin PieceSymbols

EmptyCounter == [r \in {"invalid", "loss", "draw", "cursed_win", "duplicate"} |-> 0]

(* Outcome of Generator(code, ...): an exception, or the new object *)
GeneratorInit(s) ==
    IF ReMatch(s) = 0 THEN Raise("AssertionError")
    ELSE IF FromSymbolRaises(s) THEN Raise("ValueError")
    ELSE [tag |-> "ok", code |-> s, pieces |-> s,
          unique_boards |-> {}, stats |-> EmptyCounter]

----------------------------------------------------------------------------
(* Generator._child_dtm_if_lost *)

(* board.push(move): the half-move clock of the position after the move *)
PushClock(hmvc, move) == IF move.zeroing THEN 0 ELSE hmvc + 1

(* Lower bound one ply too low: the test of a clock one ply younger *)
BoundedLossLoose(clock, dtz) == clock - FiftyMoves - 1 <= dtz /\ dtz < 0

(* board.halfmove_clock - 100 <= dtz < 0, on the board after the move *)
BoundedLoss(clock, dtz) == clock - FiftyMoves <= dtz /\ dtz < 0

(* The reply's mate distance without the assertion on its sign *)
ChildDtmIfLostUnchecked(hmvc, move) ==
    IF move.over
    THEN IF move.mate THEN PyInt(0) ELSE None
    ELSE IF ~BoundedLoss(PushClock(hmvc, move), move.dtz) THEN None
    ELSE PyInt(move.dtm)

(* DTM after a move if the move is winning, otherwise None; the assertion  *)
(* dtm < 0 raises AssertionError.  hmvc is the clock of the board before   *)
(* the move.                                                               *)
ChildDtmIfLost(hmvc, move) ==
    IF move.over
    THEN IF move.mate THEN PyInt(0) ELSE None
    ELSE IF ~BoundedLoss(PushClock(hmvc, move), move.dtz) THEN None
    ELSE IF ~(move.dtm < 0) THEN Raise("AssertionError")
    ELSE PyInt(move.dtm)

----------------------------------------------------------------------------
(* Generator._annotate_board *)

(* '{code}.{n:06d}'.format(code=..., n=...): the two values it renders *)
FormatId(c, n) == [code |-> c, n |-> n]

(* if board.halfmove_clock: epd_info['hmvc'] = board.halfmove_clock *)
WithHmvc(epd_info, hmvc) ==
    IF hmvc # 0 THEN epd_info @@ ("hmvc" :> hmvc) ELSE epd_info

(* The replies that are not None *)
WinningIndices(children_dtm) ==
    {m \in DOMAIN children_dtm : children_dtm[m].tag = "int"}

(* The farthest mate instead of the nearest *)
BestChildDtmMin(children_dtm) ==
    IF WinningIndices(children_dtm) = {} THEN Raise("ValueError")
    ELSE PyInt(Min({children_dtm[m].val : m \in WinningIndices(children_dtm)}))

(* max(dtm for dtm in children_dtm.values() if dtm is not None); max() of  *)
(* an empty sequence raises ValueError                                     *)
BestChildDtm(children_dtm) ==
    IF WinningIndices(children_dtm) = {} THEN Raise("ValueError")
    ELSE PyInt(Max({children_dtm[m].val : m \in WinningIndices(children_dtm)}))

(* [move for move, dtm in children_dtm.items() if dtm == best_child_dtm] *)
OptimalMoves(children_dtm, best_child_dtm) ==
    LET IsBest(m) == children_dtm[m] = PyInt(best_child_dtm)
    IN  SelectSeq(Indices(children_dtm), IsBest)

(* 'if not dtm' in place of 'if dtm is None': 0 is falsy too *)
BadMovesFalsy(children_dtm) ==
    LET IsFalsy(m) == children_dtm[m] = None \/ children_dtm[m] = PyInt(0)
    IN  SelectSeq(Indices(children_dtm), IsFalsy)

(* [move for move, dtm in children_dtm.items() if dtm is None] *)
BadMoves(children_dtm) ==
    LET IsNone(m) == children_dtm[m] = None
    IN  SelectSeq(Indices(children_dtm), IsNone)

(* if bad_moves: epd_info['am'] = bad_moves *)
WithAm(epd_info, bad_moves) ==
    IF bad_moves # <<>> THEN epd_info @@ ("am" :> bad_moves) ELSE epd_info

(* assert 0 < parent_dtm <= 1 - best_child_dtm *)
ParentDtmOk(parent_dtm, best_child_dtm) ==
    0 < parent_dtm /\ parent_dtm <= 1 - best_child_dtm

(* int(a / b) for b > 0: the quotient, truncated toward zero *)
IntOfQuotient(a, b) == IF a >= 0 THEN a \div b ELSE -((-a) \div b)

(* The quotient rounded toward positive infinity *)
DmCeiling(parent_dtm) == -((-(parent_dtm + 1)) \div 2)

(* int((parent_dtm + 1) / 2) *)
Dm(parent_dtm) == IntOfQuotient(parent_dtm + 1, 2)

(* The flag set when the two distances are equal as well *)
WithR50Loose(epd_info, parent_dtm, best_child_dtm) ==
    IF parent_dtm <= 1 - best_child_dtm
    THEN epd_info @@ ("R50" :> None) ELSE epd_info

(* if parent_dtm < 1 - best_child_dtm: epd_info['R50'] = None *)
WithR50(epd_info, parent_dtm, best_child_dtm) ==
    IF parent_dtm < 1 - best_child_dtm
    THEN epd_info @@ ("R50" :> None) ELSE epd_info

(* children_dtm = {move: self._child_dtm_if_lost(board, move) ...} *)
ChildrenDtm(b) ==
    [m \in 1..Len(b.pl.moves) |-> ChildDtmIfLost(b.hmvc, b.pl.moves[m])]

(* _annotate_board of board b by the generator of signature c that has n   *)
(* unique boards: the exception it raises, or epd_info                     *)
AnnotateBoard(c, n, b) ==
    LET children_dtm == ChildrenDtm(b)
        best == BestChildDtm(children_dtm)
        parent_dtm == b.pl.pdtm
    IN  IF \E m \in DOMAIN children_dtm : children_dtm[m].tag = "raise"
        THEN Raise("AssertionError")
        ELSE IF best.tag = "raise" THEN best
        ELSE IF ~ParentDtmOk(parent_dtm, best.val) THEN Raise("AssertionError")
        ELSE [tag |-> "ok",
              epd_info |->
                WithR50(WithAm(WithHmvc("id" :> FormatId(c, n), b.hmvc)
                                 @@ ("bm" :> OptimalMoves(children_dtm, best.val)),
                               BadMoves(children_dtm))
                          @@ ("dm" :> Dm(parent_dtm)),
                        parent_dtm, best.val)]

(* board.epd with epd_info as its operations: the placement (an EPD  *)
(* carries no clock) and the operations                                   *)
Epd(b, epd_info) == [pl |-> b.pl, ops |-> epd_info]

----------------------------------------------------------------------------
(* Generator._generate_boards *)

(* The clock drawn one too high *)
ClockRangeWide(dtz) == 0..(FiftyMoves + 1 - dtz)

(* random.randint(0, 100 - dtz) *)
ClockRange(dtz) == 0..(FiftyMoves - dtz)

(* 0 < dtz <= 100 *)
IsBoundedWin(dtz) == 0 < dtz /\ dtz <= FiftyMoves

(* The counters of a loss and of a draw exchanged *)
RejectReasonSwapped(dtz) ==
    IF dtz < 0 THEN "draw" ELSE IF dtz = 0 THEN "loss" ELSE "cursed_win"

(* 'loss' if dtz < 0 else 'draw' if dtz == 0 else 'cursed_win' *)
RejectReason(dtz) ==
    IF dtz < 0 THEN "loss" ELSE IF dtz = 0 THEN "draw" ELSE "cursed_win"

(* board.fen(): placement, side to move, castling rights, en passant       *)
(* square, half-move clock, full-move number                               *)
Fen(b) == <<b.pl, "w", "-", "-", b.hmvc, 1>>

(* The membership test always failing *)
IsDuplicateNever(board_key, unique) == FALSE

(* board_key in self._unique_boards *)
IsDuplicate(board_key, unique) == board_key \in unique

(* One iteration of the loop on placement pl with clock h drawn: the       *)
(* counter it increments, or "yield"                                       *)
SampleOutcome(pl, h, unique) ==
    IF ~pl.valid THEN "invalid"
    ELSE IF ~IsBoundedWin(pl.dtz) THEN RejectReason(pl.dtz)
    ELSE IF IsDuplicate(Fen([pl |-> pl, hmvc |-> h]), unique) THEN "duplicate"
    ELSE "yield"

(* The clocks the iteration can leave on the board: chess.Board.empty()    *)
(* has clock 0, and only an accepted placement gets a random one           *)
ClockChoices(pl) ==
    IF pl.valid /\ IsBoundedWin(pl.dtz) THEN ClockRange(pl.dtz) ELSE {0}

----------------------------------------------------------------------------
(* Inputs *)

Seqs(S, lo, hi) == UNION {[1..n -> S] : n \in lo..hi}

(* Signature strings: two white and two black piece letters, both kings'   *)
(* letters and a character that is no piece symbol                         *)
CodeAlphabet == {"K", "Q", "N", "k", "q", "x"}
Codes == Seqs(CodeAlphabet, 0, MaxCodeLen)

(* A move after which the game is over: checkmate, or not *)
OverMoves ==
    {[zeroing |-> FALSE, over |-> TRUE, mate |-> m, dtz |-> 0, dtm |-> 0] :
        m \in BOOLEAN}

(* A move after which the game goes on, with the oracles' answers *)
OpenMoves(dtzs, dtms) ==
    {[zeroing |-> z, over |-> FALSE, mate |-> FALSE, dtz |-> v, dtm |-> d] :
        z \in BOOLEAN, v \in dtzs, d \in dtms}

(* A clock of 100 or more lets a draw be claimed (or no move is legal):    *)
(* is_game_over(claim_draw=True) is true of such a position                *)
ClockAllows(hmvc, move) == PushClock(hmvc, move) >= FiftyMoves => move.over

(* _child_dtm_if_lost on its own: every clock an accepted board can have,  *)
(* every win distance around the two ends of the test                      *)
ChildCalls ==
    {c \in [hmvc : 0..(FiftyMoves - 1),
            move : OverMoves \cup OpenMoves((-FiftyMoves - 1)..1, (-MaxDtm)..0)] :
        ClockAllows(c.hmvc, c.move)}

(* The placements _annotate_board is applied to on its own: accepted by    *)
(* the sampler, with replies at the lower end of the test (for a reply     *)
(* that keeps the clock running and for one that resets it)                *)
AnnotPlacements ==
    [valid : {TRUE},
     dtz : (FiftyMoves - MaxClock)..FiftyMoves,
     moves : Seqs(OverMoves \cup
                  OpenMoves({-FiftyMoves - 1, MaxClock - FiftyMoves}, (-MaxDtm)..0),
                  1, MaxMoves),
     pdtm : 0..(MaxDtm + 2)]

AnnotCalls ==
    {c \in [n : 1..N, board : [pl : AnnotPlacements, hmvc : 0..MaxClock]] :
        c.board.hmvc \in ClockRange(c.board.pl.dtz)}

(* A placement the sampler rejects: of its answers only valid and dtz are  *)
(* read                                                                    *)
Rejected(valid, dtz, pdtm) ==
    [valid |-> valid, dtz |-> dtz, moves |-> <<>>, pdtm |-> pdtm]

(* The win distances the run draws: a loss, a draw, a cursed win and the   *)
(* wins that leave a clock of at most MaxClock                             *)
RunDtz == {-1, 0, FiftyMoves + 1} \cup ((FiftyMoves - MaxClock)..FiftyMoves)

(* The single replies of the run's won placements: checkmate, a draw, a    *)
(* bounded loss with a negative mate distance and one with distance 0      *)
RunMoves ==
    OverMoves \cup
    {[zeroing |-> FALSE, over |-> FALSE, mate |-> FALSE, dtz |-> -1, dtm |-> d] :
        d \in {-MaxDtm, 0}}

RunPlacements ==
    {Rejected(FALSE, d, 0) : d \in RunDtz}
    \cup {Rejected(TRUE, d, p) : d \in {v \in RunDtz : ~IsBoundedWin(v)}, p \in 0..1}
    \cup [valid : {TRUE},
          dtz : {v \in RunDtz : IsBoundedWin(v)},
          moves : {<<m>> : m \in RunMoves},
          pdtm : 0..2]

NoBoard == [pl |-> Rejected(FALSE, 0, 0), hmvc |-> 0]
NoDraw == [pl |-> Rejected(FALSE, 0, 0), hmvc |-> 0, outcome |-> "none"]
NoCall == [n |-> 0]

----------------------------------------------------------------------------
(* The run: Generator("KQk", ...) built, then islice(generate_epd(), N) *)

Init ==
    /\ pc = "sample"
    /\ code = <<"K", "Q", "k">>
    /\ pieces = <<"K", "Q", "k">>
    /\ unique_boards = {}
    /\ stats = EmptyCounter
    /\ board = NoBoard
    /\ out = <<>>
    /\ draws = 0
    /\ last = NoDraw
    /\ call = NoCall
    /\ ret = None

(* One iteration of the while loop of _generate_boards *)
Sample ==
    /\ pc = "sample"
    /\ draws < MaxDraws
    /\ \E pl \in RunPlacements : \E h \in ClockChoices(pl) :
        LET o == SampleOutcome(pl, h, unique_boards)
            b == [pl |-> pl, hmvc |-> h]
        IN  /\ last' = [pl |-> pl, hmvc |-> h, outcome |-> o]
            /\ draws' = draws + 1
            /\ IF o = "yield"
               THEN /\ unique_boards' = unique_boards \cup {Fen(b)}
                    /\ board' = b
                    /\ pc' = "annotate"
                    /\ UNCHANGED stats
               ELSE /\ stats' = [stats EXCEPT ![o] = @ + 1]
                    /\ UNCHANGED <<unique_boards, board, pc>>
    /\ UNCHANGED <<code, pieces, out, call, ret>>

(* The body of the for loop of generate_epd on the board yielded: the      *)
(* record is written, or the exception ends the run                        *)
Annotate ==
    /\ pc = "annotate"
    /\ LET r == AnnotateBoard(code, Cardinality(unique_boards), board)
       IN  IF r.tag = "raise"
           THEN /\ pc' = "aborted"
                /\ ret' = r
                /\ out' = out
           ELSE /\ out' = Append(out, Epd(board, r.epd_info))
                /\ pc' = IF Len(out) + 1 = N THEN "done" ELSE "sample"
                /\ ret' = ret
    /\ UNCHANGED <<code, pieces, unique_boards, stats, board, draws, last, call>>

Next == Sample \/ Annotate

Spec == Init /\ [][Next]_vars

----------------------------------------------------------------------------
(* Generator.__init__ on every signature string *)

CtorInit ==
    /\ pc = "new"
    /\ code \in Codes
    /\ pieces = <<>>
    /\ unique_boards = {}
    /\ stats = EmptyCounter
    /\ board = NoBoard
    /\ out = <<>>
    /\ draws = 0
    /\ last = NoDraw
    /\ call = NoCall
    /\ ret = None

Construct ==
    /\ pc = "new"
    /\ LET g == GeneratorInit(code)
       IN  IF g.tag = "raise"
           THEN /\ pc' = "config_error"
                /\ ret' = g
                /\ UNCHANGED <<pieces, unique_boards, stats>>
           ELSE /\ pc' = "sample"
                /\ pieces' = g.pieces
                /\ unique_boards' = g.unique_boards
                /\ stats' = g.stats
                /\ ret' = ret
    /\ UNCHANGED <<code, board, out, draws, last, call>>

CtorNext == Construct

CtorSpec == CtorInit /\ [][CtorNext]_vars

----------------------------------------------------------------------------
(* _child_dtm_if_lost on every clock and reply *)

ChildInit ==
    /\ pc = "call"
    /\ call \in ChildCalls
    /\ code = <<"K", "Q", "k">>
    /\ pieces = <<"K", "Q", "k">>
    /\ unique_boards = {}
    /\ stats = EmptyCounter
    /\ board = NoBoard
    /\ out = <<>>
    /\ draws = 0
    /\ last = NoDraw
    /\ ret = None

ClassifyReply ==
    /\ pc = "call"
    /\ ret' = ChildDtmIfLost(call.hmvc, call.move)
    /\ pc' = "returned"
    /\ UNCHANGED <<code, pieces, unique_boards, stats, board, out, draws, last, call>>

ChildNext == ClassifyReply

ChildSpec == ChildInit /\ [][ChildNext]_vars

----------------------------------------------------------------------------
(* _annotate_board on every accepted board *)

AnnotInit ==
    /\ pc = "call"
    /\ call \in AnnotCalls
    /\ code = <<"K", "Q", "k">>
    /\ pieces = <<"K", "Q", "k">>
    /\ unique_boards = {}
    /\ stats = EmptyCounter
    /\ board = NoBoard
    /\ out = <<>>
    /\ draws = 0
    /\ last = NoDraw
    /\ ret = None

AnnotateCall ==
    /\ pc = "call"
    /\ ret' = AnnotateBoard(code, call.n, call.board)
    /\ pc' = "returned"
    /\ UNCHANGED <<code, pieces, unique_boards, stats, board, out, draws, last, call>>

AnnotNext == AnnotateCall

AnnotSpec == AnnotInit /\ [][AnnotNext]_vars

----------------------------------------------------------------------------
(* What the claims speak of, stated from the oracles' answers *)

(* The clock an EPD record gives: the hmvc operation, absent for 0 *)
RecClock(rec) == IF "hmvc" \in DOMAIN rec.ops THEN rec.ops.hmvc ELSE 0

RecBoard(rec) == [pl |-> rec.pl, hmvc |-> RecClock(rec)]

(* The positions emitted so far, in order: those of the records written    *)
(* and the one being annotated (or whose annotation ended the run)         *)
Yielded ==
    [i \in 1..Len(out) |-> RecBoard(out[i])]
        \o (IF pc \in {"annotate", "aborted"} THEN <<board>> ELSE <<>>)

Identity(b) == <<b.pl, b.hmvc>>

SumStats ==
    stats["invalid"] + stats["loss"] + stats["draw"] + stats["cursed_win"]
        + stats["duplicate"]

Legal(b) == 1..Len(b.pl.moves)

ReplyClock(b, m) == IF b.pl.moves[m].zeroing THEN 0 ELSE b.hmvc + 1

PassesBoundedTest(b, m) ==
    ReplyClock(b, m) - 100 <= b.pl.moves[m].dtz /\ b.pl.moves[m].dtz < 0

IsWinningReply(b, m) ==
    \/ b.pl.moves[m].over /\ b.pl.moves[m].mate
    \/ ~b.pl.moves[m].over /\ PassesBoundedTest(b, m)

IsForfeitingReply(b, m) ==
    \/ b.pl.moves[m].over /\ ~b.pl.moves[m].mate
    \/ ~b.pl.moves[m].over /\ ~PassesBoundedTest(b, m)

ReplyDistance(b, m) == IF b.pl.moves[m].over THEN 0 ELSE b.pl.moves[m].dtm

WinningReplies(b) == {m \in Legal(b) : IsWinningReply(b, m)}

BestDistance(b) ==
    CHOOSE d \in {ReplyDistance(b, m) : m \in WinningReplies(b)} :
        \A m \in WinningReplies(b) : ReplyDistance(b, m) <= d

ChildDisagrees(b) ==
    \E m \in Legal(b) :
        ~b.pl.moves[m].over /\ PassesBoundedTest(b, m) /\ b.pl.moves[m].dtm >= 0

ParentDisagrees(b) ==
    /\ ~ChildDisagrees(b)
    /\ WinningReplies(b) # {}
    /\ ~(0 < b.pl.pdtm /\ b.pl.pdtm <= 1 - BestDistance(b))

Returned == pc = "returned" /\ ret.tag = "ok"

Bm == Range(ret.epd_info.bm)

Am == IF "am" \in DOMAIN ret.epd_info THEN Range(ret.epd_info.am) ELSE {}

----------------------------------------------------------------------------
(* C1: every emitted position has 0 < d <= 100 and 0 <= h <= 100 - d, so   *)
(* h + d <= 100, where d is the win-distance oracle's value for its        *)
(* placement and h its half-move clock; with d = 100 the clock is 0.       *)
C1Thm ==
    \A i \in DOMAIN Yielded :
        LET d == Yielded[i].pl.dtz
            h == Yielded[i].hmvc
        IN  /\ 0 < d /\ d <= 100
            /\ 0 <= h /\ h <= 100 - d
            /\ h + d <= 100
            /\ d = 100 => h = 0

C1Wit ==
    \E i, j \in DOMAIN out :
        /\ RecBoard(out[i]).pl.dtz = 100 /\ RecBoard(out[i]).hmvc = 0
        /\ RecBoard(out[j]).hmvc > 0
        /\ RecBoard(out[j]).hmvc + RecBoard(out[j]).pl.dtz = 100

(* C2: the emitted positions of a run have pairwise distinct identities    *)
(* and the seen set is exactly their identities; the seen set never loses  *)
(* an identity and grows by one with each emitted position; a draw of an   *)
(* accepted position whose identity is in the seen set emits nothing,      *)
(* counts 'duplicate' and leaves the sampler drawing.                      *)
C2Distinct ==
    /\ \A i, j \in DOMAIN Yielded :
        i # j => Identity(Yielded[i]) # Identity(Yielded[j])
    /\ unique_boards = {Fen(Yielded[i]) : i \in DOMAIN Yielded}
    /\ Cardinality(unique_boards) = Len(Yielded)

C2Step ==
    /\ unique_boards \subseteq unique_boards'
    /\ Cardinality(unique_boards') - Cardinality(unique_boards)
         = Len(Yielded') - Len(Yielded)
    /\ Len(Yielded') - Len(Yielded) \in {0, 1}
    /\ (/\ draws' = draws + 1
        /\ last'.pl.valid
        /\ 0 < last'.pl.dtz /\ last'.pl.dtz <= 100
        /\ \E i \in DOMAIN Yielded : Identity(Yielded[i]) = Identity(last'))
       => /\ Yielded' = Yielded
          /\ stats' = [stats EXCEPT !["duplicate"] = @ + 1]
          /\ pc' = "sample"

(* C2: distinct identities in every state, and every step keeps the seen  *)
(* set growing by one per emitted position and counts a duplicate draw.    *)
C2Thm == [][C2Step]_vars /\ []C2Distinct

C2Wit ==
    /\ Len(out) = 2
    /\ stats["duplicate"] = 1
    /\ out[1].pl = out[2].pl

(* C5: a draw ends in the one outcome the validity, the win distance and   *)
(* the seen set decide; a rejected draw adds one to its counter and to no  *)
(* other, an emitted one to none; draws = counters + emitted positions.    *)
C5Expected(valid, v, seen) ==
    IF ~valid THEN "invalid"
    ELSE IF v < 0 THEN "loss"
    ELSE IF v = 0 THEN "draw"
    ELSE IF v > 100 THEN "cursed_win"
    ELSE IF seen THEN "duplicate"
    ELSE "yield"

C5Step ==
    draws' # draws =>
        LET o == last'.outcome
        IN  /\ draws' = draws + 1
            /\ o = C5Expected(last'.pl.valid, last'.pl.dtz,
                              \E i \in DOMAIN Yielded :
                                  Identity(Yielded[i]) = Identity(last'))
            /\ IF o = "yield"
               THEN /\ stats' = stats
                    /\ Yielded' = Yielded \o <<[pl |-> last'.pl, hmvc |-> last'.hmvc]>>
               ELSE /\ stats' = [stats EXCEPT ![o] = @ + 1]
                    /\ Yielded' = Yielded

(* C5: every draw has the decided outcome and moves exactly its counter,   *)
(* and draws = sum of the counters + emitted positions in every state.     *)
C5Thm == [][C5Step]_vars /\ [](draws = SumStats + Len(Yielded))

C5Wit ==
    /\ stats["draw"] = 1
    /\ last.outcome = "draw"
    /\ last.pl.pdtm = 1
    /\ stats["duplicate"] = 1
    /\ Len(Yielded) = 1
    /\ draws = 3

(* C8: when the oracles disagree on the position being annotated (a reply  *)
(* that passes the bounded test has a mate distance >= 0, or the parent's  *)
(* mate distance p is not in 0 < p <= 1 - best) the run aborts: no record  *)
(* is added, and from then on nothing is drawn and no record changes.      *)
C8Step ==
    /\ (pc = "annotate" /\ (ChildDisagrees(board) \/ ParentDisagrees(board)))
       => (pc' = "aborted" /\ out' = out /\ draws' = draws)
    /\ pc = "aborted" => (pc' = "aborted" /\ out' = out /\ draws' = draws)

(* C8: every step from a board the oracles disagree on aborts the run and  *)
(* writes nothing, and no step follows an abort.                           *)
C8Thm == [][C8Step]_vars

C8Wit ==
    /\ pc = "aborted"
    /\ Len(out) = 1
    /\ ChildDisagrees(board)

----------------------------------------------------------------------------
(* C3, as amended: every record has a non-empty bm, every move of bm is a  *)
(* winning reply at the greatest mate distance of the winning replies and  *)
(* no winning reply outside bm is at that distance; an accepted position   *)
(* without a winning reply gets no record (the annotation raises).         *)
C3Optimal ==
    Returned =>
        /\ Bm # {}
        /\ \A m \in Bm :
            /\ IsWinningReply(call.board, m)
            /\ ReplyDistance(call.board, m) = BestDistance(call.board)
        /\ \A m \in WinningReplies(call.board) \ Bm :
            ReplyDistance(call.board, m) < BestDistance(call.board)

(* C3, as amended: bm of every record is non-empty and optimal, and a     *)
(* position without a winning reply gets no record.                        *)
C3Thm ==
    /\ C3Optimal
    /\ (pc = "returned" /\ WinningReplies(call.board) = {}) => ret.tag = "raise"

C3Wit ==
    /\ Returned
    /\ Bm # {}
    /\ WinningReplies(call.board) \ Bm # {}

(* C3 as claimed: every accepted position has a winning reply *)
C3Orig ==
    /\ C3Optimal
    /\ pc = "returned" => WinningReplies(call.board) # {}

(* C7: am is exactly the legal moves whose reply ends the game without     *)
(* checkmate or fails the bounded test (on the clock after the move); it   *)
(* is disjoint from bm, every legal move is in am or a winning reply, and  *)
(* the am operation is absent exactly when there is no such move.          *)
C7Thm ==
    Returned =>
        /\ Am = {m \in Legal(call.board) : IsForfeitingReply(call.board, m)}
        /\ Am \cap Bm = {}
        /\ \A m \in Legal(call.board) : m \in Am \/ IsWinningReply(call.board, m)
        /\ \A m \in Am : ~IsWinningReply(call.board, m)
        /\ "am" \in DOMAIN ret.epd_info
             <=> \E m \in Legal(call.board) : IsForfeitingReply(call.board, m)

C7Wit ==
    /\ Returned
    /\ \E m \in Am : ~call.board.pl.moves[m].over
    /\ \E m \in Bm : call.board.pl.moves[m].mate

(* C9, as amended: dm is (p + 1) / 2 truncated: (p + 1) / 2 for odd p and  *)
(* p / 2 for even p.                                                       *)
C9Thm ==
    Returned =>
        LET p == call.board.pl.pdtm
            dm == ret.epd_info.dm
        IN  /\ p % 2 = 1 => 2 * dm = p + 1
            /\ p % 2 = 0 => 2 * dm = p

C9Wit ==
    /\ Returned
    /\ call.board.pl.pdtm = 2
    /\ ret.epd_info.dm = 1

(* C9 as claimed: dm is the ceiling of (p + 1) / 2, for even p too *)
C9Orig ==
    Returned =>
        LET p == call.board.pl.pdtm
            dm == ret.epd_info.dm
        IN  2 * dm >= p + 1 /\ 2 * (dm - 1) < p + 1

(* C10: R50 is in the record exactly when p < 1 - best, hence absent when  *)
(* p = 1 - best, and it carries no value.                                  *)
C10Thm ==
    Returned =>
        LET p == call.board.pl.pdtm
        IN  /\ "R50" \in DOMAIN ret.epd_info <=> p < 1 - BestDistance(call.board)
            /\ p = 1 - BestDistance(call.board) => "R50" \notin DOMAIN ret.epd_info
            /\ "R50" \in DOMAIN ret.epd_info => ret.epd_info["R50"] = None

C10Wit ==
    /\ Returned
    /\ "R50" \in DOMAIN ret.epd_info
    /\ call.board.pl.pdtm = -BestDistance(call.board)

----------------------------------------------------------------------------
(* C4, as amended: a reply that does not end the game and leaves the       *)
(* oracle's win distance at exactly h - 100 is classified as losing when   *)
(* it keeps the clock running, and passes the bounded test when it resets  *)
(* the clock (the test reads the clock after the move, then 0).            *)
C4Thm ==
    (pc = "returned" /\ ~call.move.over /\ call.move.dtz = call.hmvc - 100)
        => IF call.move.zeroing THEN ret # None ELSE ret = None

C4Wit ==
    /\ pc = "returned"
    /\ ~call.move.over
    /\ ~call.move.zeroing
    /\ call.hmvc > 0
    /\ call.move.dtz = call.hmvc - 100
    /\ ret = None

(* C4 as claimed: losing for every kind of reply *)
C4Orig ==
    (pc = "returned" /\ ~call.move.over /\ call.move.dtz = call.hmvc - 100)
        => ret = None

----------------------------------------------------------------------------
(* C6: a Generator is built exactly for the signatures that are, as a      *)
(* whole, K, one or more of QRBNP, k, then any number of qrbnp.            *)
FullPattern(s) ==
    \E i \in 2..(Len(s) - 1) :
        /\ s[1] = "K"
        /\ \A j \in 2..i : s[j] \in {"Q", "R", "B", "N", "P"}
        /\ s[i + 1] = "k"
        /\ \A j \in (i + 2)..Len(s) : s[j] \in {"q", "r", "b", "n", "p"}

(* C6: construction succeeds exactly for the signatures of the pattern *)
C6Claim == pc # "new" => (pc = "sample" <=> FullPattern(code))

====
